---------------------------- MODULE Spec2Model ----------------------------
(***************************************************************************)
(* quickscan: discovery and eligibility classification of block devices.   *)
(*                                                                         *)
(* Three programs are modelled over one set of variables:                  *)
(*   Spec        Devices.__init__ (quickscan/devices.py): correlation      *)
(*               maps, the enumeration/deduplication pass, the local       *)
(*               checks, the signature scan and the multipath check;       *)
(*   SpecDm      Devices._build_lv_device_map over a wide set of dm-name   *)
(*               links;                                                    *)
(*   SpecFilter  ObjectFilter (common/filter.py) and its use by main()     *)
(*               and Devices.report.                                       *)
(*                                                                         *)
(* Text is a TLA+ string, handled with Len, \o, SubSeq as Python handles   *)
(* str.  Python int is unbounded; it is a sequence of base-10000 limbs.    *)
(***************************************************************************)
EXTENDS Integers, Sequences, FiniteSets, TLC

\* ------------------------------------------------------------------ bounds

\* Most candidate device names /sys/block lists.
MaxCandidates == 3
\* Longest volume-group / logical-volume name drawn for the dm-name links.
MaxNameLen == 3
\* Most clauses in a filter string.
MaxClauses == 2
\* Most calls of Devices.analyse on one registry (the constructor makes the first).
MaxAnalyseRuns == 2

\* ------------------------------------------------------------- Python str

Char(s, i) == SubSeq(s, i, i)

\* The characters that occur, in ASCII order (str comparison, str.upper).
Alphabet == " *+,-./0123456789=ABCDEFGHIJKLMNOPQRSTUVWXYZ^_abcdefghijklmnopqrstuvwxyz"

AlphabetChars == [i \in 1..Len(Alphabet) |-> Char(Alphabet, i)]

\* ord(c), up to the order it gives
Ord(c) == CHOOSE i \in 1..Len(Alphabet) : AlphabetChars[i] = c

\* The least member of a non-empty set of numbers.
Least(S) == CHOOSE i \in S : \A j \in S : i <= j

\* s < t for two str (lexicographic by code point): decided at the first place
\* where they differ.
StrLess(s, t) ==
    LET n == IF Len(s) < Len(t) THEN Len(s) ELSE Len(t)
        diff == {i \in 1..n : Char(s, i) # Char(t, i)}
    IN  IF diff = {} THEN Len(s) < Len(t)
        ELSE Ord(Char(s, Least(diff))) < Ord(Char(t, Least(diff)))

StartsWith(s, p) == Len(s) >= Len(p) /\ SubSeq(s, 1, Len(p)) = p

\* s.find(sub) + 1: the first place sub occurs at, 0 if none.
Find(s, sub) ==
    LET at == {i \in 1..(Len(s) - Len(sub) + 1) : SubSeq(s, i, i + Len(sub) - 1) = sub}
    IN  IF at = {} THEN 0 ELSE Least(at)

\* sub in s
Contains(s, sub) == Find(s, sub) # 0

\* s.replace(old, new): left to right, non-overlapping (old is not empty).
RECURSIVE Replace(_, _, _)
Replace(s, old, new) ==
    LET i == Find(s, old)
    IN  IF i = 0 THEN s
        ELSE SubSeq(s, 1, i - 1) \o new
             \o Replace(SubSeq(s, i + Len(old), Len(s)), old, new)

\* s.split(sep) for a one-character sep: always at least one component.
RECURSIVE Split(_, _)
Split(s, sep) ==
    LET i == Find(s, sep)
    IN  IF i = 0 THEN <<s>>
        ELSE <<SubSeq(s, 1, i - 1)>> \o Split(SubSeq(s, i + 1, Len(s)), sep)

\* sep.join(parts)
RECURSIVE Join(_, _)
Join(parts, sep) ==
    IF Len(parts) = 0 THEN ""
    ELSE IF Len(parts) = 1 THEN parts[1]
    ELSE parts[1] \o sep \o Join(Tail(parts), sep)

\* s.strip(): what lies between the first and the last character that is no
\* blank.
Strip(s) ==
    LET inked == {i \in 1..Len(s) : Char(s, i) # " "}
    IN  IF inked = {} THEN ""
        ELSE SubSeq(s, Least(inked), CHOOSE i \in inked : \A j \in inked : j <= i)

\* s.upper()
UpperChar(c) ==
    IF Ord(c) >= Ord("a") /\ Ord(c) <= Ord("z")
    THEN AlphabetChars[Ord("A") + (Ord(c) - Ord("a"))]
    ELSE c

RECURSIVE Upper(_)
Upper(s) == IF s = "" THEN "" ELSE UpperChar(Head(s)) \o Upper(Tail(s))

\* os.path.basename(p): what follows the last '/'.
basename(p) == LET parts == Split(p, "/") IN parts[Len(parts)]

\* ------------------------------------------------------------- Python int

Digits == <<"0", "1", "2", "3", "4", "5", "6", "7", "8", "9">>

IsDigit(c) == \E d \in 1..10 : Digits[d] = c

DigitVal(c) == (CHOOSE d \in 1..10 : Digits[d] = c) - 1

\* int(text) raises ValueError unless text is a decimal literal.
IntRaises(text) == text = "" \/ \E i \in 1..Len(text) : ~IsDigit(Char(text, i))

\* A Python int has no width.  It is kept as its base-10000 limbs, most
\* significant first, no leading zero limb; 0 is <<0>>.
Limb == 10000

Normal(ls) ==
    LET set == {i \in 1..Len(ls) : ls[i] # 0}
    IN  IF set = {} THEN <<0>> ELSE SubSeq(ls, Least(set), Len(ls))

\* The number that four digits or fewer spell.
SmallInt(s) ==
    LET digit(i) == IF i > Len(s) THEN 0 ELSE DigitVal(Char(s, Len(s) + 1 - i))
    IN  digit(1) + 10 * digit(2) + 100 * digit(3) + 1000 * digit(4)

\* int(text), for a text int() accepts: four digits to the limb, from the right
int(text) ==
    LET n == Len(text)
        k == (n + 3) \div 4
        first == n - 4 * (k - 1)
    IN  Normal([i \in 1..k |->
                  IF i = 1 THEN SmallInt(SubSeq(text, 1, first))
                  ELSE SmallInt(SubSeq(text, first + 4 * (i - 2) + 1, first + 4 * (i - 1)))])

\* The limb of weight Limb^(i-1), 0 beyond the most significant one.
LimbAt(a, i) == IF i >= 1 /\ i <= Len(a) THEN a[Len(a) + 1 - i] ELSE 0

\* The sum of the limb products of weight Limb^(k-1), from the i-th limb of a down.
RECURSIVE Column(_, _, _, _)
Column(a, b, k, i) ==
    IF i = 0 THEN 0 ELSE LimbAt(a, i) * LimbAt(b, k + 1 - i) + Column(a, b, k, i - 1)

\* What the columns up to k carry into column k + 1.
RECURSIVE Carry(_, _, _)
Carry(a, b, k) ==
    IF k = 0 THEN 0 ELSE (Column(a, b, k, k) + Carry(a, b, k - 1)) \div Limb

\* a * b, by columns
IntMul(a, b) ==
    LET n == Len(a) + Len(b)
    IN  Normal([j \in 1..n |->
                  (Column(a, b, n + 1 - j, n + 1 - j) + Carry(a, b, n - j)) % Limb])

\* a < b: by length, then at the first limb where they differ
IntLess(a, b) ==
    \/ Len(a) < Len(b)
    \/ /\ Len(a) = Len(b)
       /\ LET diff == {i \in 1..Len(a) : a[i] # b[i]}
          IN  diff # {} /\ a[Least(diff)] < b[Least(diff)]

\* ------------------------------------------------------------ Python dict

\* d[k] = v
DictSet(d, k, v) == [x \in (DOMAIN d) \cup {k} |-> IF x = k THEN v ELSE d[x]]

EmptyDict == <<>>

\* --------------------------------------------------------------- the host

NodeNames == <<"sda", "sdb", "sdc", "sdd", "sde">>

Nodes == {NodeNames[n] : n \in 1..MaxCandidates}

\* What os.listdir('/sys/block') may return: some of the nodes, in any order.
Listings ==
    UNION {{q \in [1..n -> Nodes] : \A a, b \in 1..n : a # b => q[a] # q[b]} :
              n \in 0..MaxCandidates}

\* What `lvs -a -o vgname,lvname,tags --reportformat=json` gives back: a
\* non-zero exit, output that is no JSON, or the report of the volumes.
LvsFailed == [returncode |-> 5, json |-> FALSE, report |-> FALSE, lv |-> <<>>]

LvsGarbage == [returncode |-> 0, json |-> FALSE, report |-> FALSE, lv |-> <<>>]

LvsReport(lv) == [returncode |-> 0, json |-> TRUE, report |-> TRUE, lv |-> lv]

\* A dm-name link of a logical volume: literal dashes of the names doubled.
DmEncode(name) == Replace(name, "-", "--")

dm_name_link(vg, lv) == "/dev/disk/by-id/dm-name-" \o DmEncode(vg) \o "-" \o DmEncode(lv)

LvLink(vg, lv, target) ==
    [link |-> dm_name_link(vg, lv), target |-> target, is_lv |-> TRUE, vg |-> vg, lv |-> lv]

OtherLink(name, target) ==
    [link |-> "/dev/disk/by-id/dm-name-" \o name, target |-> target,
     is_lv |-> FALSE, vg |-> "", lv |-> ""]

PvLinks == << <<"/dev/disk/by-id/lvm-pv-uuid-1", "sda">>,
              <<"/dev/disk/by-id/lvm-pv-uuid-2", "dm-0">> >>

\* /sys/block/<node>/holders/*: the nodes under the device-mapper node dm-0
HeldBy(nodes) == [n \in Nodes |-> IF n \in nodes THEN <<"dm-0">> ELSE <<>>]

\* The host's device-mapper node dm-0, where it exists, is a multipath alias
\* over sda and sdb or the logical volume vg/lv on sda; lvs reports the volumes
\* there are.  The multipath host has no LVM physical volume.
HostVolumes ==
    { [mpath_links |-> <<>>, dm_links |-> <<>>, holders |-> HeldBy({}),
       pv_links |-> PvLinks, lvs |-> LvsReport(<<>>)],
      [mpath_links |-> <<>>, dm_links |-> <<>>, holders |-> HeldBy({}),
       pv_links |-> PvLinks, lvs |-> LvsGarbage],
      [mpath_links |-> << <<"/dev/mapper/mpatha", "dm-0">> >>, dm_links |-> <<>>,
       holders |-> HeldBy({"sda", "sdb"}), pv_links |-> <<>>, lvs |-> LvsReport(<<>>)],
      [mpath_links |-> <<>>, dm_links |-> <<LvLink("vg", "lv", "dm-0")>>,
       holders |-> HeldBy({"sda"}), pv_links |-> PvLinks, lvs |-> LvsFailed],
      [mpath_links |-> <<>>, dm_links |-> <<LvLink("vg", "lv", "dm-0")>>,
       holders |-> HeldBy({"sda"}), pv_links |-> PvLinks,
       lvs |-> LvsReport(<<[vg_name |-> "vg", lv_name |-> "lv",
                            lv_tags |-> "ceph.osd_id=1,ceph.type=block"]>>)],
      [mpath_links |-> <<>>, dm_links |-> <<LvLink("vg", "lv", "dm-0")>>,
       holders |-> HeldBy({"sda"}), pv_links |-> PvLinks,
       lvs |-> LvsReport(<<[vg_name |-> "vg", lv_name |-> "lv", lv_tags |-> "backup"]>>)] }

Hosts ==
    {[listdir |-> l, lvs |-> v.lvs, pv_links |-> v.pv_links, holders |-> v.holders,
      mpath_links |-> v.mpath_links, dm_links |-> v.dm_links] :
        l \in Listings, v \in HostVolumes}

\* The sysfs files of one device, as read_file returns them ('unknown' for a
\* file that is not there), and the glob of its partition directories.
PartitionDirs == { <<>>, <<"1">> }

\* '^' stands for a byte outside string.printable.
NonPrintable == "^"

SizeFiles == { <<"unknown", "unknown">>, <<"20971520", "512">>, <<"10737418239", "1">> }

SysfsFiles ==
    {[vendor |-> "ACME", model |-> "DISK", vpd_pg80 |-> serial,
      size |-> sz[1], logical_block_size |-> sz[2]] :
        serial \in {"^ 123", "124"}, sz \in SizeFiles}

\* ------------------------------------------------------------------ state

VARIABLES
    pc,                  \* where the program is
    exc,                 \* the exception that ended it, if any
    host,                \* the host as the program finds it
    _skip_analysis, _disk_group_size, _candidate_devices,
    _lv_metadata, _pv_devices, _mpath_device_map, _lv_device_map,
    dev_list,            \* _build_devices' dev_list, then Devices._device_data
    dev_map,             \* _build_devices' dev_map: device_id -> index in dev_list
    next_dev,            \* index of the next candidate of the enumeration loop
    dev_paths, disk_groups,   \* locals of _check_signatures
    wipefs,              \* the completions the probes of the disk groups returned
    issued,              \* the commands handed to the command runner
    runs,                \* calls of Devices.analyse so far
    calls,               \* history: the checks invoked, in order
    enumerated,          \* history: each enumerated name with its device_id
    _kv, filters, obj, ok_result, dev_filter, report,  \* ObjectFilter and main()
    tasks,               \* concurrent_cmds: where the task of each command is
    hung                 \* the commands whose probe never returns

vars ==
    <<pc, exc, host, _skip_analysis, _disk_group_size, _candidate_devices,
      _lv_metadata, _pv_devices, _mpath_device_map, _lv_device_map,
      dev_list, dev_map, next_dev, dev_paths, disk_groups, wipefs, issued, runs,
      calls, enumerated, _kv, filters, obj, ok_result, dev_filter, report,
      tasks, hung>>

registry_vars ==
    <<host, _skip_analysis, _disk_group_size, _candidate_devices,
      _lv_metadata, _pv_devices, _mpath_device_map, _lv_device_map,
      dev_list, dev_map, next_dev, dev_paths, disk_groups, wipefs, issued, runs,
      calls, enumerated>>

filter_vars == <<_kv, filters, obj, ok_result, dev_filter, report>>

gather_vars == <<tasks, hung>>

NoExc == [type |-> "", site |-> ""]

Raise(type, site) == [type |-> type, site |-> site]

\* --------------------------------------------------- correlation maps

\* utils.get_lvm_metadata: the lv list, or what it raises.
get_lvm_metadata(out) ==
    IF out.returncode = 0
    THEN IF ~out.json THEN [exc |-> Raise("JSONDecodeError", "get_lvm_metadata"), data |-> <<>>]
         ELSE IF ~out.report THEN [exc |-> NoExc, data |-> <<>>]
         ELSE [exc |-> NoExc, data |-> out.lv]
    ELSE [exc |-> NoExc, data |-> <<>>]

\* Devices._build_lv_metadata over the lv list
RECURSIVE lv_metadata_of(_, _)
lv_metadata_of(raw, acc) ==
    IF Len(raw) = 0 THEN acc
    ELSE lv_metadata_of(Tail(raw),
             DictSet(acc, raw[1].vg_name \o "-" \o raw[1].lv_name, raw[1]))

_build_lv_metadata(raw_lv_metadata) == lv_metadata_of(raw_lv_metadata, EmptyDict)

\* The components the link name splits into once '--' is replaced.
LinkComponents(link_name) ==
    Split(basename(Replace(link_name, "--", "*")), "-")

\* The map entry of a link with 4 components, without the dashes restored.
LvInfoKeepStar(components) ==
    [vg_name |-> components[3], lv_name |-> components[4]]

LvInfo(components) ==
    [vg_name |-> Replace(components[3], "*", "-"),
     lv_name |-> Replace(components[4], "*", "-")]

\* Devices._build_lv_device_map over get_link_data('/dev/disk/by-id/dm-name-*')
RECURSIVE lv_device_map_of(_, _)
lv_device_map_of(links, map) ==
    IF Len(links) = 0 THEN map
    ELSE LET components == LinkComponents(links[1].link)
         IN  lv_device_map_of(Tail(links),
                 IF Len(components) # 4 THEN map
                 ELSE DictSet(map, links[1].target, LvInfo(components)))

_build_lv_device_map(links) == lv_device_map_of(links, EmptyDict)

\* {target: link for link, target in get_link_data('/dev/mapper/mpath*')}
RECURSIVE mpath_device_map_of(_, _)
mpath_device_map_of(links, map) ==
    IF Len(links) = 0 THEN map
    ELSE mpath_device_map_of(Tail(links), DictSet(map, links[1][2], links[1][1]))

\* [tgt for _linkname, tgt in get_link_data('/dev/disk/by-id/lvm-pv-uuid-*')]
pv_devices_of(links) == [n \in 1..Len(links) |-> links[n][2]]

InList(x, list) == \E n \in 1..Len(list) : list[n] = x

\* ------------------------------------------------------- device records

\* An insertion-ordered dict as a sequence of <<key, value>>: d[k] = v.
RECURSIVE ItemsSet(_, _, _)
ItemsSet(items, k, v) ==
    IF Len(items) = 0 THEN << <<k, v>> >>
    ELSE IF items[1][1] = k THEN << <<k, v>> >> \o Tail(items)
    ELSE <<items[1]>> \o ItemsSet(Tail(items), k, v)

\* utils.parse_tags: `k, v = tag.split('=')` raises ValueError unless the tag
\* splits in two.
RECURSIVE parse_tags_from(_, _)
parse_tags_from(tag_list, tags) ==
    IF Len(tag_list) = 0 THEN [exc |-> NoExc, tags |-> tags]
    ELSE LET kv == Split(tag_list[1], "=")
         IN  IF Len(kv) # 2
             THEN [exc |-> Raise("ValueError", "parse_tags"), tags |-> tags]
             ELSE parse_tags_from(Tail(tag_list), ItemsSet(tags, kv[1], kv[2]))

parse_tags(tags_str) == parse_tags_from(Split(tags_str, ","), <<>>)

\* The loop over tags.items() of _build_lvs: <<lv_info, ceph_lv>>.
RECURSIVE merge_tags(_, _, _)
merge_tags(items, lv_info, ceph_lv) ==
    IF Len(items) = 0 THEN <<lv_info, ceph_lv>>
    ELSE LET k == items[1][1]
             v == items[1][2]
         IN  IF StartsWith(k, "ceph.")
             THEN merge_tags(Tail(items), DictSet(lv_info, SubSeq(k, 6, Len(k)), v), TRUE)
             ELSE merge_tags(Tail(items), DictSet(lv_info, k, v), ceph_lv)

\* BaseDevice._build_lvs.  lv_info is the dict held by _lv_device_map itself,
\* so what is written into it is written into the map: `map` is the map after.
RECURSIVE build_lvs_from(_, _, _, _)
build_lvs_from(holders, lvs, map, metadata) ==
    IF Len(holders) = 0 THEN [exc |-> NoExc, lvs |-> lvs, map |-> map]
    ELSE LET holder_dev == holders[1]
         IN  IF holder_dev \notin DOMAIN map
             THEN build_lvs_from(Tail(holders), lvs, map, metadata)
             ELSE LET lv_info == map[holder_dev]
                      key == lv_info["vg_name"] \o "-" \o lv_info["lv_name"]
                      tags_str == IF key \in DOMAIN metadata THEN metadata[key].lv_tags ELSE ""
                      parsed == IF tags_str # "" THEN parse_tags(tags_str)
                                ELSE [exc |-> NoExc, tags |-> <<>>]
                      merged == merge_tags(parsed.tags, lv_info, FALSE)
                      info == IF merged[2] THEN merged[1]
                              ELSE DictSet(merged[1], "comment", "not used by ceph")
                  IN  IF parsed.exc # NoExc
                      THEN [exc |-> parsed.exc, lvs |-> lvs, map |-> map]
                      ELSE build_lvs_from(Tail(holders), Append(lvs, info),
                                          DictSet(map, holder_dev, info), metadata)

_build_lvs(holders, map, metadata) == build_lvs_from(holders, <<>>, map, metadata)

\* ''.join([ch for ch in content if ch in string.printable])
RECURSIVE Printable(_)
Printable(content) ==
    IF content = "" THEN ""
    ELSE (IF Head(content) = NonPrintable THEN "" ELSE Head(content))
         \o Printable(Tail(content))

\* BaseDevice._process_sysfs: int(content) and int(logical_size) stand before
\* the try, so a text that is no number raises ValueError out of it.
_process_sysfs(files) ==
    IF IntRaises(files.size) \/ IntRaises(files.logical_block_size)
    THEN [exc |-> Raise("ValueError", "_process_sysfs"), sys_api |-> EmptyDict]
    ELSE [exc |-> NoExc,
          sys_api |-> [sectors |-> int(files.size),
                       sectorsize |-> int(files.logical_block_size),
                       size |-> IntMul(int(files.logical_block_size), int(files.size)),
                       model |-> files.model,
                       vendor |-> files.vendor,
                       serial |-> Printable(files.vpd_pg80)]]

\* BaseDevice._detect_mpath: <<mpath_device, mpath_node>>; the loop has no
\* break, the last holder in the map stands.
RECURSIVE detect_mpath_from(_, _, _)
detect_mpath_from(holders, map, found) ==
    IF Len(holders) = 0 THEN found
    ELSE detect_mpath_from(Tail(holders), map,
             IF holders[1] \in DOMAIN map THEN <<map[holders[1]], holders[1]>> ELSE found)

_detect_mpath(holders, map) == detect_mpath_from(holders, map, <<"", "">>)

\* BaseDevice.device_id
device_id(sys_api) ==
    Replace(Join(<<Strip(sys_api.vendor), Strip(sys_api.model), Strip(sys_api.serial)>>, "_"),
            " ", "_")

\* BaseDevice.path
path(dev) == IF dev.mpath_device # "" THEN dev.mpath_device ELSE dev.dev_path

\* Device.available
available(dev) == dev.reject_reasons = <<>>

\* BaseDevice.__init__ / Device.__init__, once _build_lvs and _process_sysfs
\* have returned.
NewDevice(kind, dev_node, holders, lvs, sys_api, mpath) ==
    [kind |-> kind, _dev_node |-> dev_node, dev_path |-> "/dev/" \o dev_node,
     alt_path |-> "", mpath_device |-> mpath[1], mpath_node |-> mpath[2],
     _holders |-> holders, lvs |-> lvs, sys_api |-> sys_api,
     reject_reasons |-> <<>>]

\* ----------------------------------------------------------- local checks

\* BaseDevice._min_osd_size_bytes = 10737418240
_min_osd_size_bytes == int("10737418240")

\* f'Device too small (< {human_readable_size(self._min_osd_size_bytes)})'
TooSmall == "Device too small (< 10.00 GB)"

Reject(dev, reason) == [dev EXCEPT !.reject_reasons = Append(@, reason)]

\* Device._check_size with <= for <
_check_size_inclusive(dev) ==
    IF ~IntLess(_min_osd_size_bytes, dev.sys_api.size) THEN Reject(dev, TooSmall) ELSE dev

\* Device._check_size
_check_size(dev) ==
    IF IntLess(dev.sys_api.size, _min_osd_size_bytes) THEN Reject(dev, TooSmall) ELSE dev

\* Device._check_partitions; dirs is the glob of the partition directories
_check_partitions(dev, dirs) ==
    IF dirs # <<>> THEN Reject(dev, "Has partitions") ELSE dev

\* Device._check_LVM
_check_LVM(dev, pv_devices) ==
    LET dev_nodes == Split(dev._dev_node \o " " \o dev.mpath_node, " ")
    IN  IF \E n \in 1..Len(dev_nodes) : InList(dev_nodes[n], pv_devices)
        THEN Reject(dev, "LVM device") ELSE dev

\* utils.is_device_locked, by what os.open and os.close do
LockOutcomes == {"open_fails", "close_fails", "unlocked"}

is_device_locked(outcome) == outcome # "unlocked"

\* The descriptor of is_device_locked when it returns: none was obtained when
\* os.open raised; os.close gives the descriptor up, on Linux also when it
\* raises.
fd_after(outcome) == IF outcome = "open_fails" THEN "none" ELSE "closed"

\* A probe that is attempted whenever the record has no reason yet.
LockProbedMpathToo(dev) == dev.reject_reasons = <<>>

\* An entry of the history of calls.
Call(fn, node, outcome, fd) == [fn |-> fn, node |-> node, outcome |-> outcome, fd |-> fd]

\* Device._check_locked: whether the exclusive open is attempted
LockProbed(dev) == dev.reject_reasons = <<>> /\ dev.mpath_device = ""

\* Device._check_locked
_check_locked(dev, outcome) ==
    IF dev.reject_reasons # <<>> THEN dev
    ELSE IF dev.mpath_device # "" THEN dev
    ELSE IF is_device_locked(outcome) THEN Reject(dev, "Locked") ELSE dev

\* Device.analyse: the four checks in their order
analyse_device(dev, dirs, pv_devices, outcome) ==
    _check_locked(_check_LVM(_check_partitions(_check_size(dev), dirs), pv_devices), outcome)

\* What Device.analyse adds to the history of calls.
analyse_calls(dev, dirs, pv_devices, outcome) ==
    LET before_lock == _check_LVM(_check_partitions(_check_size(dev), dirs), pv_devices)
    IN  << Call("_check_size", dev._dev_node, "", ""),
           Call("_check_partitions", dev._dev_node, "", ""),
           Call("_check_LVM", dev._dev_node, "", ""),
           Call("_check_locked", dev._dev_node, "", "") >>
        \o (IF LockProbed(before_lock)
            THEN << Call("is_device_locked", dev._dev_node, outcome, fd_after(outcome)) >>
            ELSE <<>>)

\* --------------------------------------------------------- the registry

\* A duplicate that leaves an alternate path already set alone.
register_keep_first_alt(list, map, dev, analysed) ==
    LET id == device_id(dev.sys_api)
    IN  IF id \in DOMAIN map
        THEN [list |-> [list EXCEPT ![map[id]].alt_path =
                            IF @ = "" THEN "/dev/" \o dev._dev_node ELSE @],
              map |-> map]
        ELSE [list |-> Append(list, analysed), map |-> DictSet(map, id, Len(list) + 1)]

\* Devices._build_devices, lines 376-384: `analysed` is dev after dev.analyse()
\* (dev itself when the analysis is skipped).
register(list, map, dev, analysed) ==
    LET id == device_id(dev.sys_api)
    IN  IF id \in DOMAIN map
        THEN [list |-> [list EXCEPT ![map[id]].alt_path = "/dev/" \o dev._dev_node],
              map |-> map]
        ELSE [list |-> Append(list, analysed), map |-> DictSet(map, id, Len(list) + 1)]

PcAfterLoop(next, candidates, skip) ==
    IF next <= Len(candidates) THEN "enumerate"
    ELSE IF skip THEN "done" ELSE "signatures"

\* Devices(skip_analysis, disk_group_size=10): the default and the least size.
DiskGroupSizes == {1, 10}

IdleFilter ==
    /\ _kv = ""
    /\ filters = EmptyDict
    /\ obj = EmptyDict
    /\ ok_result = FALSE
    /\ dev_filter = "None"
    /\ report = <<>>

IdleRegistry ==
    /\ _candidate_devices = <<>>
    /\ _lv_metadata = EmptyDict
    /\ _pv_devices = <<>>
    /\ _mpath_device_map = EmptyDict
    /\ _lv_device_map = EmptyDict
    /\ dev_list = <<>>
    /\ dev_map = EmptyDict
    /\ next_dev = 1
    /\ dev_paths = <<>>
    /\ disk_groups = <<>>
    /\ wipefs = <<>>
    /\ issued = <<>>
    /\ runs = 0
    /\ calls = <<>>
    /\ enumerated = <<>>
    /\ tasks = <<>>
    /\ hung = {}

\* Devices(skip_analysis, disk_group_size) is about to be constructed.
Init ==
    /\ pc = "start"
    /\ exc = NoExc
    /\ host \in Hosts
    /\ _skip_analysis \in BOOLEAN
    /\ _disk_group_size \in DiskGroupSizes
    /\ IdleRegistry
    /\ IdleFilter

\* Devices.__init__, lines 256-266: the candidates and the four maps.
BuildMaps ==
    /\ pc = "start"
    /\ LET md == get_lvm_metadata(host.lvs)
       IN  IF md.exc # NoExc
           THEN /\ pc' = "raised"
                /\ exc' = md.exc
                /\ _candidate_devices' = host.listdir
                /\ UNCHANGED <<_lv_metadata, _pv_devices, _mpath_device_map, _lv_device_map>>
           ELSE /\ pc' = PcAfterLoop(1, host.listdir, _skip_analysis)
                /\ exc' = exc
                /\ _candidate_devices' = host.listdir
                /\ _lv_metadata' = _build_lv_metadata(md.data)
                /\ _pv_devices' = pv_devices_of(host.pv_links)
                /\ _mpath_device_map' = mpath_device_map_of(host.mpath_links, EmptyDict)
                /\ _lv_device_map' = _build_lv_device_map(host.dm_links)
    /\ UNCHANGED <<host, _skip_analysis, _disk_group_size, dev_list, dev_map, next_dev,
                   dev_paths, disk_groups, wipefs, issued, runs, calls, enumerated>>
    /\ UNCHANGED filter_vars
    /\ UNCHANGED gather_vars

\* One turn of the loop of Devices._build_devices: the device is constructed
\* from what sysfs holds for dev_node, then merged into the record that has its
\* device_id, or analysed and registered.
BuildDevice ==
    /\ pc = "enumerate"
    /\ \E files \in SysfsFiles :
        LET dev_node == _candidate_devices[next_dev]
            holders == host.holders[dev_node]
            built == _build_lvs(holders, _lv_device_map, _lv_metadata)
            sysfs == _process_sysfs(files)
            kind == IF _skip_analysis THEN "BaseDevice" ELSE "Device"
            dev == NewDevice(kind, dev_node, holders, built.lvs, sysfs.sys_api,
                             _detect_mpath(holders, _mpath_device_map))
            id == device_id(dev.sys_api)
            Registered(analysed, new_calls) ==
                LET reg == register(dev_list, dev_map, dev, analysed)
                IN  /\ pc' = PcAfterLoop(next_dev + 1, _candidate_devices, _skip_analysis)
                    /\ exc' = exc
                    /\ _lv_device_map' = built.map
                    /\ dev_list' = reg.list
                    /\ dev_map' = reg.map
                    /\ next_dev' = next_dev + 1
                    /\ calls' = calls \o new_calls
                    /\ enumerated' = Append(enumerated, [node |-> dev_node, id |-> id])
        IN  IF built.exc # NoExc \/ sysfs.exc # NoExc
            THEN /\ pc' = "raised"
                 /\ exc' = IF built.exc # NoExc THEN built.exc ELSE sysfs.exc
                 /\ _lv_device_map' = built.map
                 /\ UNCHANGED <<dev_list, dev_map, next_dev, calls, enumerated>>
            ELSE IF _skip_analysis \/ id \in DOMAIN dev_map
            THEN Registered(dev, <<>>)
            ELSE \E dirs \in PartitionDirs :
                   \E outcome \in
                        IF LockProbed(_check_LVM(_check_partitions(_check_size(dev), dirs),
                                                 _pv_devices))
                        THEN LockOutcomes ELSE {"unlocked"} :
                      Registered(analyse_device(dev, dirs, _pv_devices, outcome),
                                 analyse_calls(dev, dirs, _pv_devices, outcome))
    /\ UNCHANGED <<host, _skip_analysis, _disk_group_size, _candidate_devices,
                   _lv_metadata, _pv_devices, _mpath_device_map,
                   dev_paths, disk_groups, wipefs, issued, runs>>
    /\ UNCHANGED filter_vars
    /\ UNCHANGED gather_vars

\* ------------------------------------------------------ signature scan

\* sorted([dev.path for dev in self._device_data if dev.available]): the path
\* in place k is the one with k - 1 paths before it, equal paths in the order
\* of their records.
AvailablePaths(list) ==
    LET avail == {n \in 1..Len(list) : available(list[n])}
        before(m, n) ==
            \/ StrLess(path(list[m]), path(list[n]))
            \/ path(list[m]) = path(list[n]) /\ m < n
        rank(n) == Cardinality({m \in avail : before(m, n)}) + 1
    IN  [k \in 1..Cardinality(avail) |-> path(list[CHOOSE n \in avail : rank(n) = k])]

Min(a, b) == IF a < b THEN a ELSE b

\* dev_paths[i:i + size] for i in range(0, len(dev_paths), size)
PathGroups(paths, size) ==
    [g \in 1..((Len(paths) + size - 1) \div size) |->
        SubSeq(paths, (g - 1) * size + 1, Min(g * size, Len(paths)))]

\* f'wipefs -J --noheadings {paths}' for each group
DiskGroups(path_groups) ==
    [g \in 1..Len(path_groups) |-> "wipefs -J --noheadings " \o Join(path_groups[g], " ")]

\* concurrent.concurrent_cmds(func, cmd_list): its positional parameters
concurrent_cmds_params == <<"func", "cmd_list">>

\* devices.py line 330 calls concurrent_cmds(disk_groups)
concurrent_cmds_args(groups) == <<groups>>

\* Python binds a call's positional arguments to the parameters or raises
\* TypeError.
Binds(params, args) == Len(args) = Len(params)

\* The completions the probes of the groups may return: a failed probe prints
\* nothing, a successful one reports a signature for any of its devices.
RECURSIVE SigRecords(_, _)
SigRecords(paths, flagged) ==
    IF Len(paths) = 0 THEN <<>>
    ELSE (IF basename(paths[1]) \in flagged
          THEN << [device |-> basename(paths[1]), type |-> "ext4"] >> ELSE <<>>)
         \o SigRecords(Tail(paths), flagged)

Completions(paths) ==
    { [returncode |-> 1, stdout |-> <<>>] }
    \cup { [returncode |-> 0, stdout |-> SigRecords(paths, flagged)] :
             flagged \in SUBSET {basename(paths[n]) : n \in 1..Len(paths)} }

WipefsAnswers(path_groups) ==
    {a \in [1..Len(path_groups) -> UNION {Completions(path_groups[g]) : g \in 1..Len(path_groups)}] :
        \A g \in 1..Len(path_groups) : a[g] \in Completions(path_groups[g])}

\* The signatures dict of one completion: device -> the types reported for it.
RECURSIVE signatures_of(_, _)
signatures_of(sigs, signatures) ==
    IF Len(sigs) = 0 THEN signatures
    ELSE LET dev_name == sigs[1].device
             have == IF dev_name \in DOMAIN signatures THEN signatures[dev_name] ELSE <<>>
         IN  signatures_of(Tail(sigs),
                 DictSet(signatures, dev_name,
                         IF InList(sigs[1].type, have) THEN have ELSE Append(have, sigs[1].type)))

\* _check_signatures, lines 348-356, for one completion's signatures
mark_signatures(list, signatures) ==
    [n \in 1..Len(list) |->
        LET dev == list[n]
            check_name == IF dev.mpath_device = "" THEN dev._dev_node
                          ELSE basename(dev.mpath_device)
        IN  IF check_name \in DOMAIN signatures
            THEN Reject(dev, Join(signatures[check_name], ",") \o " detected")
            ELSE dev]

\* _check_signatures, lines 333-356: the loop over the completions
RECURSIVE merge_completions(_, _)
merge_completions(data, list) ==
    IF Len(data) = 0 THEN list
    ELSE IF data[1].returncode # 0 THEN merge_completions(Tail(data), list)
    ELSE IF data[1].stdout = <<>> THEN merge_completions(Tail(data), list)
    ELSE merge_completions(Tail(data),
                           mark_signatures(list, signatures_of(data[1].stdout, EmptyDict)))

\* Devices._check_signatures
CheckSignatures ==
    /\ pc = "signatures"
    /\ LET paths == AvailablePaths(dev_list)
           path_groups == PathGroups(paths, _disk_group_size)
           groups == DiskGroups(path_groups)
       IN  /\ dev_paths' = paths
           /\ runs' = runs + 1
           /\ IF paths = <<>>
              THEN /\ pc' = "multipath"
                   /\ UNCHANGED <<exc, disk_groups, wipefs, issued, dev_list>>
              ELSE /\ disk_groups' = groups
                   /\ IF ~Binds(concurrent_cmds_params, concurrent_cmds_args(groups))
                      THEN /\ pc' = "raised"
                           /\ exc' = Raise("TypeError", "_check_signatures")
                           /\ UNCHANGED <<wipefs, issued, dev_list>>
                      ELSE /\ pc' = "multipath"
                           /\ exc' = exc
                           /\ issued' = issued \o groups
                           /\ wipefs' \in WipefsAnswers(path_groups)
                           /\ dev_list' = merge_completions(wipefs', dev_list)
    /\ UNCHANGED <<host, _skip_analysis, _disk_group_size, _candidate_devices,
                   _lv_metadata, _pv_devices, _mpath_device_map, _lv_device_map,
                   dev_map, next_dev, calls, enumerated>>
    /\ UNCHANGED filter_vars
    /\ UNCHANGED gather_vars

MpathMissing == "multipath configuration missing"

\* _check_multipath that drops what was found before
check_multipath_reset(list) ==
    [n \in 1..Len(list) |->
        IF list[n].alt_path # "" /\ list[n].mpath_node = ""
        THEN [list[n] EXCEPT !.reject_reasons = <<MpathMissing>>] ELSE list[n]]

\* Devices._check_multipath over the records
check_multipath(list) ==
    [n \in 1..Len(list) |->
        IF list[n].alt_path # "" /\ list[n].mpath_node = ""
        THEN Reject(list[n], MpathMissing) ELSE list[n]]

\* Devices._check_multipath, the end of Devices.analyse
CheckMultipath ==
    /\ pc = "multipath"
    /\ dev_list' = check_multipath(dev_list)
    /\ pc' = "done"
    /\ UNCHANGED <<exc, host, _skip_analysis, _disk_group_size, _candidate_devices,
                   _lv_metadata, _pv_devices, _mpath_device_map, _lv_device_map,
                   dev_map, next_dev, dev_paths, disk_groups, wipefs, issued, runs,
                   calls, enumerated>>
    /\ UNCHANGED filter_vars
    /\ UNCHANGED gather_vars

\* A caller runs Devices.analyse() again on the constructed registry.
Reanalyse ==
    /\ pc = "done"
    /\ ~_skip_analysis
    /\ runs < MaxAnalyseRuns
    /\ pc' = "signatures"
    /\ UNCHANGED <<exc, dev_list>>
    /\ UNCHANGED <<host, _skip_analysis, _disk_group_size, _candidate_devices,
                   _lv_metadata, _pv_devices, _mpath_device_map, _lv_device_map,
                   dev_map, next_dev, dev_paths, disk_groups, wipefs, issued, runs,
                   calls, enumerated>>
    /\ UNCHANGED filter_vars
    /\ UNCHANGED gather_vars

Next == BuildMaps \/ BuildDevice \/ CheckSignatures \/ CheckMultipath \/ Reanalyse

Spec == Init /\ [][Next]_vars

\* ------------------------------------------------------ the dm-name map
\* Devices.__init__ on hosts that differ in their dm-name links only.

\* The names of volume groups and logical volumes: LVM takes letters, digits
\* and + _ . -, and no name that begins with a dash.
RECURSIVE NamesOfLen(_)
NamesOfLen(n) ==
    IF n = 1 THEN {"a", "b"}
    ELSE {s \o c : s \in NamesOfLen(n - 1), c \in {"a", "b", "-"}}

LvmNames == UNION {NamesOfLen(n) : n \in 1..MaxNameLen}

\* The dm-name links of a host: that of the volume vg/lv, after or before that
\* of a device-mapper node that is no logical volume.
DmHosts ==
    {[listdir |-> <<>>, lvs |-> LvsReport(<<>>), pv_links |-> <<>>,
      holders |-> HeldBy({}), mpath_links |-> <<>>, dm_links |-> links] :
        links \in UNION {{<<OtherLink("mpatha", "dm-1"), LvLink(vg, lv, "dm-0")>>,
                          <<LvLink(vg, lv, "dm-0"), OtherLink("a-b-c", "dm-1")>>} :
                            vg \in LvmNames, lv \in LvmNames}}

InitDm ==
    /\ pc = "start"
    /\ exc = NoExc
    /\ host \in DmHosts
    /\ _skip_analysis = TRUE
    /\ _disk_group_size = 10
    /\ IdleRegistry
    /\ IdleFilter

NextDm == BuildMaps

SpecDm == InitDm /\ [][NextDm]_vars

\* -------------------------------------------------------- ObjectFilter
\* A Python value an attribute or a clause holds: its type, its text, and the
\* dict it is when it is one.

PyStr(text) == [t |-> "str", s |-> text, d |-> EmptyDict]

PyBool(b) == [t |-> "bool", s |-> IF b THEN "True" ELSE "False", d |-> EmptyDict]

PyDict(d) == [t |-> "dict", s |-> "", d |-> d]

PyNone == [t |-> "NoneType", s |-> "None", d |-> EmptyDict]

\* a != b is `not PyEq(a, b)` for the values above
PyEq(a, b) == a.t = b.t /\ a.s = b.s /\ a.d = b.d

\* ObjectFilter._build_filter, lines 25-26: the value of the comparison
\* `v.upper() in ['TRUE', 'FALSE']` is what v becomes.
Coerce(v) ==
    IF Upper(v) \in {"TRUE", "FALSE"}
    THEN PyBool(Upper(v) \in {"TRUE", "FALSE"})
    ELSE PyStr(v)

\* ObjectFilter._build_filter: the loop over self._kv.split(',')
RECURSIVE build_filter_from(_, _)
build_filter_from(pairs, acc) ==
    IF Len(pairs) = 0 THEN [exc |-> NoExc, filters |-> acc]
    ELSE LET kv_pair == pairs[1]
             parts == Split(kv_pair, "=")
         IN  IF ~Contains(kv_pair, "=")
             THEN [exc |-> Raise("AssertionError", "_build_filter"), filters |-> acc]
             ELSE IF Len(parts) # 2
             THEN [exc |-> Raise("ValueError", "_build_filter"), filters |-> acc]
             ELSE IF parts[1] = "" \/ parts[2] = ""
             THEN [exc |-> Raise("AssertionError", "_build_filter"), filters |-> acc]
             ELSE build_filter_from(Tail(pairs), DictSet(acc, parts[1], Coerce(parts[2])))

_build_filter(kv) == build_filter_from(Split(kv, ","), EmptyDict)

\* ObjectFilter.valid
valid(f) == ~(f = EmptyDict)

\* ObjectFilter.ok, lines 31-48, for one clause k: v.
\* "veto" returns False, "pass" goes on to the next clause.
clause_ok(k, v, o) ==
    LET parts == Split(k, "/")
        key == IF Contains(k, "/") THEN parts[1] ELSE k
        subkey == IF Contains(k, "/") THEN parts[2] ELSE ""
    IN  IF Contains(k, "/") /\ Len(parts) # 2 THEN "raise"
        ELSE IF key \notin DOMAIN o THEN "pass"
        ELSE IF subkey # "" /\ o[key].t # "dict" THEN "pass"
        ELSE LET val == IF subkey # ""
                        THEN (IF subkey \in DOMAIN o[key].d THEN o[key].d[subkey] ELSE PyNone)
                        ELSE o[key]
             IN  IF ~PyEq(val, v) THEN "veto" ELSE "pass"

\* ObjectFilter.ok: no clause raises with the keys in use here, and the first
\* clause that vetoes returns False.
ok(f, o) ==
    IF \E k \in DOMAIN f : clause_ok(k, f[k], o) = "raise"
    THEN [exc |-> Raise("ValueError", "ok"), result |-> FALSE]
    ELSE [exc |-> NoExc, result |-> \A k \in DOMAIN f : clause_ok(k, f[k], o) # "veto"]

\* What --filter may carry; "" is a run without --filter.
Clauses == <<"a=1", "b=true", "b=FALSE", "c=1", "s/k=1", "a", "=1", "a=">>

RECURSIVE FilterStringsOf(_)
FilterStringsOf(n) ==
    IF n = 1 THEN {Clauses[c] : c \in 1..Len(Clauses)}
    ELSE {f \o "," \o Clauses[c] : f \in FilterStringsOf(n - 1), c \in 1..Len(Clauses)}

FilterStrings == {""} \cup UNION {FilterStringsOf(n) : n \in 1..MaxClauses}

\* The attributes of the device the report is about.
WithAttr(o, k, present, v) == IF present THEN DictSet(o, k, v) ELSE o

Objects ==
    {WithAttr(WithAttr(WithAttr(EmptyDict, "a", a # "", PyStr(a)),
                       "b", b # "", PyBool(b = "True")),
              "s", TRUE, IF s = "dict" THEN PyDict(DictSet(EmptyDict, "k", PyStr("1")))
                         ELSE PyStr("1")) :
        a \in {"", "1", "2"}, b \in {"", "True", "False"}, s \in {"str", "dict"}}

InitFilter ==
    /\ pc = "main"
    /\ exc = NoExc
    /\ host \in {h \in Hosts : h.listdir = <<>> /\ h.lvs = LvsReport(<<>>) /\ h.dm_links = <<>>
                               /\ h.mpath_links = <<>>}
    /\ _skip_analysis = TRUE
    /\ _disk_group_size = 10
    /\ IdleRegistry
    /\ _kv \in FilterStrings
    /\ filters = EmptyDict
    /\ obj \in Objects
    /\ ok_result = FALSE
    /\ dev_filter = "None"
    /\ report = <<>>

\* main, lines 28-33: the filter of the run.
ParseFilter ==
    /\ pc = "main"
    /\ IF _kv = ""
       THEN /\ pc' = "report"
            /\ UNCHANGED <<exc, filters, dev_filter>>
       ELSE LET built == _build_filter(_kv)
            IN  IF built.exc # NoExc
                THEN /\ pc' = "raised"
                     /\ exc' = built.exc
                     /\ UNCHANGED <<filters, dev_filter>>
                ELSE /\ pc' = "report"
                     /\ exc' = exc
                     /\ filters' = built.filters
                     /\ dev_filter' = IF ~valid(built.filters) THEN "None" ELSE "ObjectFilter"
    /\ UNCHANGED <<_kv, obj, ok_result, report>>
    /\ UNCHANGED registry_vars
    /\ UNCHANGED gather_vars

\* Devices.as_json(dev_filter) over the device obj: the devices it lists.
Report ==
    /\ pc = "report"
    /\ IF dev_filter = "None"
       THEN /\ pc' = "reported"
            /\ report' = <<obj>>
            /\ UNCHANGED <<exc, ok_result>>
       ELSE LET r == ok(filters, obj)
            IN  IF r.exc # NoExc
                THEN /\ pc' = "raised"
                     /\ exc' = r.exc
                     /\ UNCHANGED <<ok_result, report>>
                ELSE /\ pc' = "reported"
                     /\ exc' = exc
                     /\ ok_result' = r.result
                     /\ report' = IF ~r.result THEN <<>> ELSE <<obj>>
    /\ UNCHANGED <<_kv, filters, obj, dev_filter>>
    /\ UNCHANGED registry_vars
    /\ UNCHANGED gather_vars

NextFilter == ParseFilter \/ Report

SpecFilter == InitFilter /\ [][NextFilter]_vars

\* ------------------------------------------------- concurrent_cmds
\* async_run(concurrent_cmds(func, cmd_list)) with func = issue_cmd and
\* cmd_list = disk_groups, on the one thread of the event loop.

\* The record of a clean device that passed the local checks.
CleanDevice(node) ==
    NewDevice("Device", node, <<>>, <<>>,
              [sectors |-> int("20971520"), sectorsize |-> int("512"),
               size |-> IntMul(int("512"), int("20971520")),
               model |-> "DISK", vendor |-> "ACME", serial |-> node],
              <<"", "">>)

CleanDevices(n) == [i \in 1..n |-> CleanDevice(NodeNames[i])]

\* The calls that analysing the devices of the list made.
RECURSIVE CleanCalls(_)
CleanCalls(list) ==
    IF Len(list) = 0 THEN <<>>
    ELSE analyse_calls(list[1], <<>>, <<>>, "unlocked") \o CleanCalls(Tail(list))

\* A completion gather has no result for yet.
NoCompletion == [returncode |-> -1, stdout |-> <<>>]

\* _check_signatures has built disk_groups over the paths of n clean devices;
\* some of the probes will never return.
InitGather ==
    /\ pc = "concurrent_cmds"
    /\ exc = NoExc
    /\ _skip_analysis = FALSE
    /\ _disk_group_size \in DiskGroupSizes
    /\ \E n \in 1..MaxCandidates :
          /\ host = [listdir |-> [i \in 1..n |-> NodeNames[i]], lvs |-> LvsReport(<<>>),
                     pv_links |-> <<>>, holders |-> HeldBy({}), mpath_links |-> <<>>,
                     dm_links |-> <<>>]
          /\ dev_list = CleanDevices(n)
    /\ _candidate_devices = host.listdir
    /\ _lv_metadata = EmptyDict
    /\ _pv_devices = <<>>
    /\ _mpath_device_map = EmptyDict
    /\ _lv_device_map = EmptyDict
    /\ dev_map = [id \in {device_id(dev_list[i].sys_api) : i \in 1..Len(dev_list)} |->
                     CHOOSE i \in 1..Len(dev_list) : device_id(dev_list[i].sys_api) = id]
    /\ next_dev = Len(dev_list) + 1
    /\ dev_paths = AvailablePaths(dev_list)
    /\ disk_groups = DiskGroups(PathGroups(dev_paths, _disk_group_size))
    /\ wipefs = <<>>
    /\ issued = <<>>
    /\ runs = 1
    /\ calls = CleanCalls(dev_list)
    /\ enumerated = [i \in 1..Len(dev_list) |->
                        [node |-> dev_list[i]._dev_node, id |-> device_id(dev_list[i].sys_api)]]
    /\ tasks = <<>>
    /\ hung \in SUBSET (1..Len(disk_groups))
    /\ IdleFilter

\* concurrent_cmds, lines 34-38: a run_func coroutine per command, handed to
\* asyncio.gather, which makes a task of each, ready in the order of the list.
CreateTasks ==
    /\ pc = "concurrent_cmds"
    /\ pc' = "gather"
    /\ tasks' = [g \in 1..Len(disk_groups) |-> "ready"]
    /\ wipefs' = [g \in 1..Len(disk_groups) |-> NoCompletion]
    /\ UNCHANGED <<exc, host, _skip_analysis, _disk_group_size, _candidate_devices,
                   _lv_metadata, _pv_devices, _mpath_device_map, _lv_device_map,
                   dev_list, dev_map, next_dev, dev_paths, disk_groups, issued, runs,
                   calls, enumerated, hung>>
    /\ UNCHANGED filter_vars

\* The thread of the event loop is inside func(cmd) of some task.
LoopBusy == \E g \in 1..Len(tasks) : tasks[g] = "running"

\* run_func, lines 28-29: the loop runs the first ready task, which calls
\* func(cmd); run_func awaits nothing, the call is made on the loop's thread.
StartProbe ==
    /\ pc = "gather"
    /\ ~LoopBusy
    /\ \E g \in 1..Len(tasks) :
          /\ tasks[g] = "ready"
          /\ \A h \in 1..(g - 1) : tasks[h] # "ready"
          /\ tasks' = [tasks EXCEPT ![g] = "running"]
          /\ issued' = Append(issued, disk_groups[g])
    /\ UNCHANGED <<pc, exc, host, _skip_analysis, _disk_group_size, _candidate_devices,
                   _lv_metadata, _pv_devices, _mpath_device_map, _lv_device_map,
                   dev_list, dev_map, next_dev, dev_paths, disk_groups, wipefs, runs,
                   calls, enumerated, hung>>
    /\ UNCHANGED filter_vars

\* run_func, lines 29-30: func(cmd) returns its CompletedProcess, the task is
\* done and the loop has its thread back.
ProbeReturns ==
    /\ pc = "gather"
    /\ \E g \in 1..Len(tasks) :
          /\ tasks[g] = "running"
          /\ g \notin hung
          /\ \E completion \in Completions(PathGroups(dev_paths, _disk_group_size)[g]) :
                wipefs' = [wipefs EXCEPT ![g] = completion]
          /\ tasks' = [tasks EXCEPT ![g] = "done"]
    /\ UNCHANGED <<pc, exc, host, _skip_analysis, _disk_group_size, _candidate_devices,
                   _lv_metadata, _pv_devices, _mpath_device_map, _lv_device_map,
                   dev_list, dev_map, next_dev, dev_paths, disk_groups, issued, runs,
                   calls, enumerated, hung>>
    /\ UNCHANGED filter_vars

\* concurrent_cmds, lines 38-40, and _check_signatures, lines 333-356: gather
\* has every result, data is returned and merged into the records.
GatherReturns ==
    /\ pc = "gather"
    /\ \A g \in 1..Len(tasks) : tasks[g] = "done"
    /\ pc' = "multipath"
    /\ dev_list' = merge_completions(wipefs, dev_list)
    /\ UNCHANGED <<exc, host, _skip_analysis, _disk_group_size, _candidate_devices,
                   _lv_metadata, _pv_devices, _mpath_device_map, _lv_device_map,
                   dev_map, next_dev, dev_paths, disk_groups, wipefs, issued, runs,
                   calls, enumerated, tasks, hung>>
    /\ UNCHANGED filter_vars

NextGather == CreateTasks \/ StartProbe \/ ProbeReturns \/ GatherReturns

\* The event loop runs whatever is ready, a probe that is not hung returns.
SpecGather == InitGather /\ [][NextGather]_vars /\ WF_vars(NextGather)

\* ------------------------------------------------------------- properties

IsPrefix(a, b) == Len(a) <= Len(b) /\ SubSeq(b, 1, Len(a)) = a

Count(list, x) == Cardinality({n \in 1..Len(list) : list[n] = x})

Greatest(S) == CHOOSE i \in S : \A j \in S : j <= i

\* The enumeration loop has gone through every candidate.
Built ==
    /\ Len(enumerated) = Len(_candidate_devices)
    /\ \/ pc \in {"signatures", "multipath", "done"}
       \/ pc = "raised" /\ exc.site = "_check_signatures"

\* The places in the enumeration of the names with identity id.
Places(id) == {i \in 1..Len(enumerated) : enumerated[i].id = id}

\* One record per identity, its primary path the first name enumerated with
\* it, no check run for a later name; its alternate path every later name
\* (every_later) or the last name enumerated with the identity.
OnePerIdentity(every_later) ==
    LET ids == {enumerated[i].id : i \in 1..Len(enumerated)}
    IN  /\ Len(dev_list) = Cardinality(ids)
        /\ \A id \in ids :
             \E n \in 1..Len(dev_list) :
                LET rec == dev_list[n]
                    first == Least(Places(id))
                    last == Greatest(Places(id))
                IN  /\ device_id(rec.sys_api) = id
                    /\ rec.dev_path = "/dev/" \o enumerated[first].node
                    /\ IF every_later
                       THEN /\ Places(id) = {first} => rec.alt_path = ""
                            /\ \A i \in Places(id) \ {first} :
                                  rec.alt_path = "/dev/" \o enumerated[i].node
                       ELSE rec.alt_path =
                               IF last = first THEN "" ELSE "/dev/" \o enumerated[last].node
                    /\ \A i \in Places(id) \ {first} :
                          \A c \in 1..Len(calls) : calls[c].node # enumerated[i].node

\* C1, as the code has it: once every candidate has been enumerated the
\* registry holds exactly one record per distinct device identity, whose
\* primary path is the first name enumerated with the identity and whose
\* alternate path is the LAST later name with it (none: empty); no local check
\* is run for a later name.
C1_OneRecordLastAlternate == Built => OnePerIdentity(FALSE)

\* C1 as stated: as above, but every later name with the identity is stored as
\* the record's alternate path.
C1_EveryLaterNameStored == Built => OnePerIdentity(TRUE)

\* Three names of one device have been enumerated; the record holds the third.
C1_Witness ==
    /\ Built
    /\ Len(enumerated) = 3
    /\ Len(dev_list) = 1
    /\ dev_list[1].dev_path = "/dev/" \o enumerated[1].node
    /\ dev_list[1].alt_path = "/dev/" \o enumerated[3].node

\* C2 as stated: building the registry with analysis enabled never raises, on
\* any host, and ends with a record for every distinct device discovered.
C2_NothingFatal ==
    ~_skip_analysis =>
        /\ pc # "raised"
        /\ pc = "done" =>
             Len(dev_list) = Cardinality({enumerated[i].id : i \in 1..Len(enumerated)})

\* What a check makes of a record's reasons extends what was there.
Extends(dev, checked) == IsPrefix(dev.reject_reasons, checked.reject_reasons)

\* Every device the probes could flag, flagged.
AllFlagged ==
    [name \in {IF dev_list[n].mpath_device = "" THEN dev_list[n]._dev_node
               ELSE basename(dev_list[n].mpath_device) : n \in 1..Len(dev_list)}
        |-> <<"ext4">>]

ChecksExtend ==
    \A n \in 1..Len(dev_list) :
        LET dev == dev_list[n]
        IN  dev.kind = "Device" =>
              /\ Extends(dev, _check_size(dev))
              /\ \A dirs \in PartitionDirs : Extends(dev, _check_partitions(dev, dirs))
              /\ Extends(dev, _check_LVM(dev, _pv_devices))
              /\ \A outcome \in LockOutcomes : Extends(dev, _check_locked(dev, outcome))
              /\ Extends(dev, mark_signatures(dev_list, AllFlagged)[n])
              /\ Extends(dev, check_multipath(dev_list)[n])

ReasonsKept ==
    \A n \in 1..Len(dev_list) :
        /\ n <= Len(dev_list')
        /\ IsPrefix(dev_list[n].reject_reasons, dev_list'[n].reject_reasons)

\* C3: in every reachable state a record is available exactly when it has no
\* rejection reason; no check applied to a record drops or reorders a reason
\* it has, and no step of the program, a second run of the analysis included,
\* leaves a record with anything but its earlier reasons followed by new ones.
C3_AppendOnly ==
    /\ [](\A n \in 1..Len(dev_list) :
            available(dev_list[n]) <=> Len(dev_list[n].reject_reasons) = 0)
    /\ []ChecksExtend
    /\ [][ReasonsKept]_vars

\* The analysis has run twice over a record that holds several reasons.
C3_Witness ==
    /\ pc = "done"
    /\ runs = 2
    /\ \E n \in 1..Len(dev_list) :
          /\ Len(dev_list[n].reject_reasons) >= 3
          /\ dev_list[n].reject_reasons[1] = TooSmall

\* bytes < 10,737,418,240, on the limbs 107 | 3741 | 8240 of the threshold
Below10GiB(bytes) ==
    \/ Len(bytes) < 3
    \/ /\ Len(bytes) = 3
       /\ \/ bytes[1] < 107
          \/ bytes[1] = 107 /\ bytes[2] < 3741
          \/ bytes[1] = 107 /\ bytes[2] = 3741 /\ bytes[3] < 8240

\* C4: an analysed record carries the size reason if and only if its size in
\* bytes is strictly less than 10,737,418,240.
C4_SizeBoundary ==
    \A n \in 1..Len(dev_list) :
        dev_list[n].kind = "Device" =>
            (InList(TooSmall, dev_list[n].reject_reasons)
                <=> Below10GiB(dev_list[n].sys_api.size))

\* A device of 20971520 sectors of 512 bytes (10,737,418,240 bytes) without the
\* size reason next to one of 10,737,418,239 bytes with it.
C4_Witness ==
    \E n, m \in 1..Len(dev_list) :
        /\ dev_list[n].kind = "Device"
        /\ dev_list[n].sys_api.sectors = <<2097, 1520>>
        /\ dev_list[n].sys_api.sectorsize = <<512>>
        /\ dev_list[n].sys_api.size = <<107, 3741, 8240>>
        /\ ~InList(TooSmall, dev_list[n].reject_reasons)
        /\ dev_list[m].kind = "Device"
        /\ dev_list[m].sys_api.size = <<107, 3741, 8239>>
        /\ InList(TooSmall, dev_list[m].reject_reasons)

\* The value a clause states: "true"/"false" in any case the boolean, any
\* other text itself.
StatedValue(v) ==
    IF Upper(v) = "TRUE" THEN PyBool(TRUE)
    ELSE IF Upper(v) = "FALSE" THEN PyBool(FALSE)
    ELSE PyStr(v)

\* Whether the object agrees with the clause "k=v", a clause about a key the
\* object lacks or a subkey of what is no mapping agreeing with anything.
ClauseAgrees(clause, o) ==
    LET k == Split(clause, "=")[1]
        v == StatedValue(Split(clause, "=")[2])
        key == Split(k, "/")[1]
        sub == Contains(k, "/")
    IN  key \in DOMAIN o =>
           IF sub
           THEN o[key].t = "dict" =>
                   /\ Split(k, "/")[2] \in DOMAIN o[key].d
                   /\ PyEq(o[key].d[Split(k, "/")[2]], v)
           ELSE PyEq(o[key], v)

\* C5 as stated: ok(obj) is true if and only if every clause whose key the
\* object has agrees with the object, "true" and "false" standing for the
\* booleans.
C5_OkIffEveryClauseAgrees ==
    (pc = "reported" /\ dev_filter = "ObjectFilter") =>
        (ok_result <=>
            \A c \in 1..Len(Split(_kv, ",")) : ClauseAgrees(Split(_kv, ",")[c], obj))

\* A clause without '=', or with an empty key or value.
BadClause(clause) ==
    \/ ~Contains(clause, "=")
    \/ Split(clause, "=")[1] = ""
    \/ Split(clause, "=")[2] = ""

\* C6 as stated: a filter string with a clause that has no '=' (or an empty key
\* or value) never makes the construction raise, gives a filter that reports
\* itself invalid, and a report that lists what a run without a filter lists.
C6_InvalidFilterIsNoFilter ==
    (_kv # "" /\ \E c \in 1..Len(Split(_kv, ",")) : BadClause(Split(_kv, ",")[c])) =>
        /\ pc # "raised"
        /\ pc \in {"report", "reported"} => (~valid(filters) /\ dev_filter = "None")
        /\ pc = "reported" => report = <<obj>>

\* The signature scan of the construction is over, and had paths to probe.
ScanEnded ==
    /\ runs = 1
    /\ \/ pc \in {"multipath", "done"}
       \/ pc = "raised" /\ exc.site = "_check_signatures"

HasSignatureReason(dev) ==
    \E r \in 1..Len(dev.reject_reasons) :
        LET reason == dev.reject_reasons[r]
        IN  Len(reason) > 9 /\ SubSeq(reason, Len(reason) - 8, Len(reason)) = " detected"

\* C7 as stated: the scan is not aborted; every batch has its completion; the
\* devices of a batch whose probe exited non-zero have no signature reason, and
\* every device a successful probe reported a signature for has the reason
\* '<types> detected'.
C7_FailedBatchIsolated ==
    (ScanEnded /\ dev_paths # <<>>) =>
        LET batches == PathGroups(dev_paths, _disk_group_size)
        IN  /\ pc # "raised"
            /\ Len(wipefs) = Len(batches)
            /\ \A g \in 1..Len(batches) :
                 IF wipefs[g].returncode # 0
                 THEN \A n \in 1..Len(dev_list) :
                         InList(path(dev_list[n]), batches[g])
                             => ~HasSignatureReason(dev_list[n])
                 ELSE \A q \in 1..Len(wipefs[g].stdout) :
                         \E n \in 1..Len(dev_list) :
                            /\ basename(path(dev_list[n])) = wipefs[g].stdout[q].device
                            /\ InList(wipefs[g].stdout[q].type \o " detected",
                                      dev_list[n].reject_reasons)

\* C8 as stated: with N >= 1 eligible paths and batch size K the scan issues
\* ceil(N/K) probes, over consecutive slices of the sorted path list, each
\* path in exactly one of them; with N = 0 it issues none.
C8_CeilProbes ==
    ScanEnded =>
        LET N == Len(dev_paths)
            K == _disk_group_size
        IN  /\ \A i, j \in 1..N : i < j => StrLess(dev_paths[i], dev_paths[j])
            /\ Len(issued) = (N + K - 1) \div K
            /\ \A g \in 1..Len(issued) :
                  issued[g] = "wipefs -J --noheadings "
                              \o Join(SubSeq(dev_paths, (g - 1) * K + 1, Min(g * K, N)), " ")

\* C9: once the maps are built, the target of the dm-name link of every volume
\* vg/lv, dashes in the names included, is mapped to exactly vg and lv, and
\* the target of a link that does not split into 4 components is not mapped.
C9_DecodeInvertsEncode ==
    pc # "start" =>
        \A i \in 1..Len(host.dm_links) :
            LET l == host.dm_links[i]
            IN  /\ l.is_lv =>
                      /\ l.target \in DOMAIN _lv_device_map
                      /\ _lv_device_map[l.target] = [vg_name |-> l.vg, lv_name |-> l.lv]
                /\ Len(LinkComponents(l.link)) # 4 => l.target \notin DOMAIN _lv_device_map

\* The link of a-b/b-- is mapped, the link of a multipath alias is not.
C9_Witness ==
    /\ pc # "start"
    /\ \E i, j \in 1..Len(host.dm_links) :
          /\ host.dm_links[i].is_lv
          /\ host.dm_links[i].vg = "a-b"
          /\ host.dm_links[i].lv = "b--"
          /\ host.dm_links[i].link = "/dev/disk/by-id/dm-name-a--b-b----"
          /\ "dm-0" \in DOMAIN _lv_device_map
          /\ _lv_device_map["dm-0"].vg_name = "a-b"
          /\ ~host.dm_links[j].is_lv
          /\ "dm-1" \notin DOMAIN _lv_device_map

\* C10 as stated: when an analysis-enabled build is over, a record carries
\* 'multipath configuration missing' once if it has an alternate path and no
\* multipath node, and not at all otherwise.
C10_MultipathMissingOnce ==
    (ScanEnded /\ pc # "multipath" /\ ~_skip_analysis) =>
        \A n \in 1..Len(dev_list) :
            Count(dev_list[n].reject_reasons, MpathMissing) =
                IF dev_list[n].alt_path # "" /\ dev_list[n].mpath_node = "" THEN 1 ELSE 0

\* Devices.__init__ has built the four correlation maps.
MapsBuilt ==
    /\ pc \in {"enumerate", "signatures", "multipath", "done", "raised"}
    /\ ~(pc = "raised" /\ exc.site = "get_lvm_metadata")

\* C11 as stated: once built, the LV metadata map, the PV list, the multipath
\* map and the dm-name map, and every entry in them, stay what the
\* construction made of the host, whatever records are constructed and
\* whatever checks run afterwards.
C11_MapsReadOnly ==
    MapsBuilt =>
        /\ _lv_metadata = _build_lv_metadata(get_lvm_metadata(host.lvs).data)
        /\ _pv_devices = pv_devices_of(host.pv_links)
        /\ _mpath_device_map = mpath_device_map_of(host.mpath_links, EmptyDict)
        /\ _lv_device_map = _build_lv_device_map(host.dm_links)
\* The calls made for the device node, in their order.
CallsFor(node) ==
    LET ForNode(c) == c.node = node IN SelectSeq(calls, ForNode)

LocalReasons == {TooSmall, "Has partitions", "LVM device"}

\* C12: the checks of a record are called in the order size, partitions, LVM,
\* lock; the exclusive open is attempted only for a record that has none of
\* the reasons of the earlier checks and no multipath device; a probe whose
\* open or close failed leaves exactly one 'Locked', as the record's first
\* reason, any other record has none; and no probe returns with its descriptor
\* open.
C12_LockProbeLast ==
    \A n \in 1..Len(dev_list) :
        LET dev == dev_list[n]
            made == CallsFor(dev._dev_node)
            probed == Len(made) = 5
            reasons == dev.reject_reasons
        IN  dev.kind = "Device" =>
              /\ Len(made) \in {4, 5}
              /\ <<made[1].fn, made[2].fn, made[3].fn, made[4].fn>>
                     = <<"_check_size", "_check_partitions", "_check_LVM", "_check_locked">>
              /\ probed =>
                    /\ made[5].fn = "is_device_locked"
                    /\ dev.mpath_device = ""
                    /\ \A r \in 1..Len(reasons) : reasons[r] \notin LocalReasons
                    /\ made[5].fd # "open"
                    /\ IF made[5].outcome \in {"open_fails", "close_fails"}
                       THEN Count(reasons, "Locked") = 1 /\ reasons[1] = "Locked"
                       ELSE Count(reasons, "Locked") = 0
              /\ ~probed => Count(reasons, "Locked") = 0

\* One record was probed, the close failed and it is 'Locked'; another has a
\* multipath device and no reason, and was not probed.
C12_Witness ==
    \E n, m \in 1..Len(dev_list) :
        /\ Len(CallsFor(dev_list[n]._dev_node)) = 5
        /\ CallsFor(dev_list[n]._dev_node)[5].outcome = "close_fails"
        /\ CallsFor(dev_list[n]._dev_node)[5].fd = "closed"
        /\ dev_list[n].reject_reasons = <<"Locked">>
        /\ dev_list[m].kind = "Device"
        /\ dev_list[m].mpath_device # ""
        /\ dev_list[m].reject_reasons = <<>>
        /\ Len(CallsFor(dev_list[m]._dev_node)) = 4
\* C13 as stated: a batch whose probe returns is started and completes
\* whatever other batch hangs; the join, and with it the merge into the
\* records, comes only when every batch has completed; and no record changes
\* while the probes run.
C13_HungBatchBlocksOnlyJoin ==
    /\ \A g \in 1..MaxCandidates :
          (pc = "gather" /\ g \in DOMAIN tasks /\ g \notin hung)
              ~> (g \in DOMAIN tasks /\ tasks[g] = "done")
    /\ [](pc = "multipath" => \A g \in DOMAIN tasks : tasks[g] = "done")
    /\ [][pc' = "gather" => dev_list' = dev_list]_vars

=============================================================================
